---- MODULE Spec2Model ----
(***************************************************************************)
(* A model of ilm_limiter.py: one process invocation (main) runs           *)
(* Ilm_limiter.run_limits against an Elasticsearch cluster whose own       *)
(* lifecycle engine (ILM) may act between any two requests of the limiter. *)
(***************************************************************************)
EXTENDS Integers, Sequences, FiniteSets, TLC

VARIABLES
    \* ---- the cluster (Elasticsearch) ----
    es_lifecycles,      \* policy name -> what es.ilm.get_lifecycle returns for it
    es_order,           \* the order in which get_lifecycle lists the policies
    es_indices,         \* index name -> its settings, size and ILM position
    has_cluster_privs,  \* security.has_privileges(cluster=...)["has_all_requested"]
    has_index_privs,    \* policy name -> has_privileges(index=its indices)
    ilm_races,          \* whether the cluster's lifecycle engine acts during a run
    ilm_steps,          \* steps the engine has taken while the limiter ran
    \* ---- the operator (cron) ----
    invocations,        \* --dry-run flag of each invocation still to come
    \* ---- one invocation of main() ----
    run,                \* number of the current invocation (0 before the first)
    pc,                 \* where the invocation is
    dry_run,            \* Ilm_limiter.dry_run
    exit_code,          \* process exit status, -1 while running
    stdout,             \* the distinct lines the process has printed
    lifecycles,         \* run_limits: the filtered, decoded policies
    todo,               \* run_limits: policies the for loop has still to visit
    phases_indexes,     \* check_lifecycle: lifecycle_phases_indexes (in dict order)
    phases_todo,        \* check_lifecycle: phases the for loop has still to visit
    phase_next,         \* check_lifecycle: lifecycle_phase_next
    walk,               \* check_lifecycle_phase: sorted items still to visit
    disk_usage_phase_sum,
    \* ---- what an observer sees ----
    calls,              \* every request sent to the cluster, in order
    log                 \* every log record emitted, in order

vars == <<es_lifecycles, es_order, es_indices, has_cluster_privs, has_index_privs,
          ilm_races, ilm_steps, invocations, run, pc, dry_run, exit_code, stdout,
          lifecycles, todo,
          phases_indexes, phases_todo, phase_next, walk, disk_usage_phase_sum,
          calls, log>>

cluster_vars == <<es_lifecycles, es_order, has_cluster_privs, has_index_privs,
                  ilm_races>>

----------------------------------------------------------------------------
(* Bounds of the model *)

\* index sizes are 0..MaxSize KiB
MaxSize == 1
\* lifecycle dates are 1..MaxDate
MaxDate == 2
\* configured limits are "<n>kb" for n up to MaxLimit
MaxLimit == 2
\* steps the lifecycle engine takes while the limiter runs
MaxIlmSteps == 2

----------------------------------------------------------------------------
(* Program constants *)

global_lifecycle_phases == <<"hot", "warm", "cold", "frozen", "delete">>

units == <<"kb", "mb", "gb", "tb">>

factor == 1024

PolicyNames == {"p1", "p2"}

IndexNames == {"a", "b", "c", "d"}

\* the order in which in_use_by lists index names
IndexOrder == <<"a", "b", "c", "d">>

NoValue == "-"

----------------------------------------------------------------------------
(* Helpers on sequences *)

Range(s) == {s[i] : i \in DOMAIN s}

RECURSIVE SelectNames(_, _)
SelectNames(s, keep) ==
    IF s = <<>> THEN <<>>
    ELSE IF Head(s) \in keep THEN <<Head(s)>> \o SelectNames(Tail(s), keep)
    ELSE SelectNames(Tail(s), keep)

RECURSIVE Pow(_, _)
Pow(b, e) == IF e = 0 THEN 1 ELSE b * Pow(b, e - 1)

\* int(): truncation towards zero of n / d, d > 0
TruncDiv(n, d) == IF n >= 0 THEN n \div d ELSE -((-n) \div d)

PhaseIndex(phase) ==
    CHOOSE i \in DOMAIN global_lifecycle_phases : global_lifecycle_phases[i] = phase

----------------------------------------------------------------------------
(* SizeUnitConverter *)

\* A size string "<number><unit>": its numeric prefix in tenths (numeric is FALSE
\* when float() cannot parse the prefix) and its suffix.
SizeString(tenths, unit) == [numeric |-> TRUE, tenths |-> tenths, unit |-> unit]

UnitStep(unit) == CHOOSE i \in DOMAIN units : units[i] = unit

\* convert_size_to_bytes: int(float(prefix) * factor ** (step + 1)), or ValueError
\* (raised is TRUE) when no unit matches or the prefix is no number.
convert_size_to_bytes(size) ==
    IF size.unit \in Range(units) /\ size.numeric
    THEN [raised |-> FALSE,
          bytes |-> TruncDiv(size.tenths * Pow(factor, UnitStep(size.unit)), 10)]
    ELSE [raised |-> TRUE, bytes |-> 0]

----------------------------------------------------------------------------
(* ConfigExtractor *)

\* schema calls the validator convert_size_to_bytes on max_size and accepts the
\* value when the call returns something true: no exception, and not 0.
ValidMaxSize(size) ==
    LET r == convert_size_to_bytes(size) IN ~r.raised /\ r.bytes # 0

\* every policy counts as limited
is_lifecycle_limited_Unvalidated(properties) == TRUE

\* lines 173-189: the schema accepts the policy
is_lifecycle_limited(properties) ==
    /\ properties.has_meta
    /\ \A phase \in DOMAIN properties.meta : ValidMaxSize(properties.meta[phase])

\* every limit of the metadata is merged
LimitedPhases_All(properties) == DOMAIN properties.meta

\* the phases whose limit decode_lifecycle_phases merges ("phase in phases")
LimitedPhases(properties) ==
    {phase \in DOMAIN properties.meta : phase \in properties.phases}

\* decode_lifecycle_phases: phases[phase]["limits"]["max_size_bytes"]
decode_lifecycle_phases(properties) ==
    [phases |-> properties.phases,
     limits |-> [phase \in LimitedPhases(properties) |->
                    convert_size_to_bytes(properties.meta[phase]).bytes],
     dangling |-> DOMAIN properties.meta \ properties.phases]

----------------------------------------------------------------------------
(* The cluster's answers *)

Step(phase, action, name) == [phase |-> phase, action |-> action, name |-> name]

NoStep == Step(NoValue, NoValue, NoValue)

CompleteStep(phase) == Step(phase, "complete", "complete")

\* the step an index is at when it has just entered a phase
EntryStep(phase) == Step(phase, "migrate", "branch-check-skip-action")

\* explain_lifecycle(index)["indices"][index]: phase, action, step
CurrentStep(index) ==
    Step(es_indices[index].phase, es_indices[index].action, es_indices[index].name)

\* in_use_by.indices of a policy
InUseBy(policy) ==
    SelectNames(IndexOrder,
        {i \in IndexNames : es_indices[i].exists /\ es_indices[i].policy = policy})

Missing(indexes) == {i \in indexes : ~es_indices[i].exists}

\* the policy's phase after `phase` that the engine itself moves an index to
EngineNextPhases(policy, phase) ==
    {q \in es_lifecycles[policy].phases : PhaseIndex(q) > PhaseIndex(phase)}

----------------------------------------------------------------------------
(* PhaseLimitEngine: pure parts *)

\* get_lifecycles: the policies kept, decoded
get_lifecycles ==
    [policy \in {p \in DOMAIN es_lifecycles : is_lifecycle_limited(es_lifecycles[p])} |->
        [phases |-> decode_lifecycle_phases(es_lifecycles[policy]).phases,
         limits |-> decode_lifecycle_phases(es_lifecycles[policy]).limits,
         indices |-> InUseBy(policy)]]

\* global_lifecycle_phases[:-1]
KnownPhases ==
    {global_lifecycle_phases[i] : i \in 1 .. Len(global_lifecycle_phases) - 1}

RECURSIVE DescendingFrom(_, _)
DescendingFrom(i, phases) ==
    IF i = 0 THEN <<>>
    ELSE IF global_lifecycle_phases[i] \in phases
    THEN <<global_lifecycle_phases[i]>> \o DescendingFrom(i - 1, phases)
    ELSE DescendingFrom(i - 1, phases)

RECURSIVE AscendingFrom(_, _)
AscendingFrom(i, phases) ==
    IF i > Len(global_lifecycle_phases) THEN <<>>
    ELSE IF global_lifecycle_phases[i] \in phases
    THEN <<global_lifecycle_phases[i]>> \o AscendingFrom(i + 1, phases)
    ELSE AscendingFrom(i + 1, phases)

\* the known phases are gone over in their actual order
PhasesToCheck_Ascending(properties) ==
    AscendingFrom(1, properties.phases \cap KnownPhases)

\* check_lifecycle: the policy's known phases, sorted in reverse order
PhasesToCheck(properties) ==
    DescendingFrom(Len(global_lifecycle_phases), properties.phases \cap KnownPhases)

\* the successor is the next phase of the global order, defined or not
get_next_lifecycle_phase_Unfiltered(properties, current_phase) ==
    IF PhaseIndex(current_phase) = Len(global_lifecycle_phases) THEN NoValue
    ELSE global_lifecycle_phases[PhaseIndex(current_phase) + 1]

\* get_next_lifecycle_phase: NoValue stands for the ValueError
get_next_lifecycle_phase(properties, current_phase) ==
    LET later == {i \in PhaseIndex(current_phase) + 1 .. Len(global_lifecycle_phases) :
                     global_lifecycle_phases[i] \in properties.phases}
    IN IF later = {} THEN NoValue
       ELSE global_lifecycle_phases[CHOOSE i \in later : \A j \in later : i <= j]

\* get_indexes_in_phases: each index with the step explain_lifecycle reports,
\* in the order of index_names
RECURSIVE get_indexes_in_phases(_)
get_indexes_in_phases(index_names) ==
    IF index_names = <<>> THEN <<>>
    ELSE <<[index |-> Head(index_names), step |-> CurrentStep(Head(index_names))]>>
         \o get_indexes_in_phases(Tail(index_names))

\* the indices are not divided into their phases
PhaseGroup_AllItems(items, phase) == items

\* the group of a phase also holds the items observed in later phases
RECURSIVE PhaseGroup_PhaseOrLater(_, _)
PhaseGroup_PhaseOrLater(items, phase) ==
    IF items = <<>> THEN <<>>
    ELSE IF PhaseIndex(Head(items).step.phase) >= PhaseIndex(phase)
    THEN <<Head(items)>> \o PhaseGroup_PhaseOrLater(Tail(items), phase)
    ELSE PhaseGroup_PhaseOrLater(Tail(items), phase)

\* lifecycle_phases_indexes.get(phase, {}): the items of one phase
RECURSIVE PhaseGroup(_, _)
PhaseGroup(items, phase) ==
    IF items = <<>> THEN <<>>
    ELSE IF Head(items).step.phase = phase
    THEN <<Head(items)>> \o PhaseGroup(Tail(items), phase)
    ELSE PhaseGroup(Tail(items), phase)

\* get_index_lifecycle_date
get_index_lifecycle_date(index) == es_indices[index].date

\* get_index_total_dataset_size
get_index_total_dataset_size(index) == es_indices[index].size

\* sorted(..., key=date, reverse=True) is stable: of two items with the same
\* date the one that came first stays first
RECURSIVE InsertByDate(_, _)
InsertByDate(item, sorted) ==
    IF sorted = <<>> THEN <<item>>
    ELSE IF get_index_lifecycle_date(Head(sorted).index)
              >= get_index_lifecycle_date(item.index)
    THEN <<Head(sorted)>> \o InsertByDate(item, Tail(sorted))
    ELSE <<item>> \o sorted

RECURSIVE SortedByDate(_, _)
SortedByDate(items, sorted) ==
    IF items = <<>> THEN sorted
    ELSE SortedByDate(Tail(items), InsertByDate(Head(items), sorted))

\* a limit that is reached counts as exceeded
ExceedsLimit_OrReaches(sum, limit) == sum >= limit

\* line 292
ExceedsLimit(sum, limit) == sum > limit

\* the step of a candidate is not looked at
IsSteadyStep_Unchecked(step) == TRUE

\* line 295
IsSteadyStep(step) == step.action = "complete" /\ step.name = "complete"

\* the cluster's check of move_to_step: the index exists and is at current_step
MoveAccepted(index, current_step) ==
    es_indices[index].exists /\ CurrentStep(index) = current_step

----------------------------------------------------------------------------
(* What an observer sees: requests and log records *)

Call(api, target, step, next, ok) ==
    [run |-> run, dry |-> dry_run, api |-> api, target |-> target, step |-> step,
     next |-> next, ok |-> ok]

LogRecord(level, msg, lifecycle, phase, index, total, limit, next) ==
    [run |-> run, dry |-> dry_run, level |-> level, msg |-> msg,
     lifecycle |-> lifecycle, phase |-> phase, index |-> index, total |-> total,
     limit |-> limit, next |-> next]

\* one request per index, up to and including the first whose index is gone
RECURSIVE IndexCalls(_, _)
IndexCalls(api, indexes) ==
    IF indexes = <<>> THEN <<>>
    ELSE <<Call(api, Head(indexes), NoStep, NoValue, es_indices[Head(indexes)].exists)>>
         \o (IF es_indices[Head(indexes)].exists
             THEN IndexCalls(api, Tail(indexes)) ELSE <<>>)

RECURSIVE ItemNames(_)
ItemNames(items) ==
    IF items = <<>> THEN <<>> ELSE <<Head(items).index>> \o ItemNames(Tail(items))

\* line 203: one warning per limit whose phase the policy does not define
RECURSIVE DanglingWarnings(_, _)
DanglingWarnings(policy, i) ==
    IF i > Len(global_lifecycle_phases) THEN <<>>
    ELSE (IF global_lifecycle_phases[i]
                \in decode_lifecycle_phases(es_lifecycles[policy]).dangling
          THEN <<LogRecord("WARNING", "has no phase but limits", policy,
                           global_lifecycle_phases[i], NoValue, 0, 0, NoValue)>>
          ELSE <<>>)
         \o DanglingWarnings(policy, i + 1)

RECURSIVE AllDanglingWarnings(_)
AllDanglingWarnings(policies) ==
    IF policies = <<>> THEN <<>>
    ELSE DanglingWarnings(Head(policies), 1) \o AllDanglingWarnings(Tail(policies))

\* log_lifecycle_stats: phases[phase] summed over the policies
RECURSIVE SumOfLimits(_, _)
SumOfLimits(phase, policies) ==
    IF policies = <<>> THEN 0
    ELSE (IF phase \in DOMAIN lifecycles[Head(policies)].limits
          THEN lifecycles[Head(policies)].limits[phase] ELSE 0)
         + SumOfLimits(phase, Tail(policies))

RECURSIVE StatsRecords(_, _)
StatsRecords(i, policies) ==
    IF i > Len(global_lifecycle_phases) THEN <<>>
    ELSE (IF \E p \in Range(policies) :
                global_lifecycle_phases[i] \in DOMAIN lifecycles[p].limits
          THEN <<LogRecord("INFO", "sum of limits", NoValue, global_lifecycle_phases[i],
                           NoValue, 0,
                           SumOfLimits(global_lifecycle_phases[i], policies), NoValue)>>
          ELSE <<>>)
         \o StatsRecords(i + 1, policies)

----------------------------------------------------------------------------
(* main and Ilm_limiter.run_limits *)

local_vars == <<lifecycles, todo, phases_indexes, phases_todo, phase_next, walk,
                disk_usage_phase_sum>>

\* main: a new process; nothing is kept from the invocation before
Main ==
    /\ pc = "idle"
    /\ invocations # <<>>
    /\ run' = run + 1
    /\ dry_run' = Head(invocations)
    /\ invocations' = Tail(invocations)
    /\ exit_code' = -1
    /\ lifecycles' = <<>>
    /\ todo' = <<>>
    /\ phases_indexes' = <<>>
    /\ phases_todo' = <<>>
    /\ phase_next' = NoValue
    /\ walk' = <<>>
    /\ disk_usage_phase_sum' = 0
    /\ stdout' = {}
    /\ pc' = "run_limits"
    /\ UNCHANGED <<cluster_vars, es_indices, ilm_steps, calls, log>>

\* an exception nothing catches: the interpreter prints it and exits with 1
Uncaught(name, requests) ==
    /\ calls' = calls \o requests
    /\ log' = Append(log, LogRecord("TRACEBACK", name, NoValue, NoValue, NoValue,
                                    0, 0, NoValue))
    /\ exit_code' = 1
    /\ pc' = "exit"

\* the answer of has_privileges is not looked at
ClusterPrivilegesPass_Unchecked == TRUE

\* check_cluster_privileges, line 111
ClusterPrivilegesPass == has_cluster_privs

\* run_limits, line 128; the ValueError is caught by main, line 403
CheckClusterPrivileges ==
    /\ pc = "run_limits"
    /\ calls' = Append(calls, Call("has_privileges(cluster)", NoValue, NoStep, NoValue,
                                   has_cluster_privs))
    /\ IF ClusterPrivilegesPass
       THEN /\ pc' = "get_lifecycles"
            /\ UNCHANGED <<log, exit_code>>
       ELSE /\ log' = Append(log, LogRecord("ERROR", "ValueError", NoValue, NoValue,
                                            NoValue, 0, 0, NoValue))
            /\ exit_code' = 1
            /\ pc' = "exit"
    /\ UNCHANGED <<cluster_vars, stdout, es_indices, ilm_steps, invocations, run, dry_run,
                   local_vars>>

\* run_limits, line 131
GetLifecycles ==
    /\ pc = "get_lifecycles"
    /\ calls' = Append(calls, Call("get_lifecycle", NoValue, NoStep, NoValue, TRUE))
    /\ lifecycles' = get_lifecycles
    /\ todo' = SelectNames(es_order, DOMAIN lifecycles')
    /\ log' = log \o AllDanglingWarnings(todo')
    /\ pc' = "for_lifecycle"
    /\ UNCHANGED <<cluster_vars, stdout, es_indices, ilm_steps, invocations, run, dry_run,
                   exit_code, phases_indexes, phases_todo, phase_next, walk,
                   disk_usage_phase_sum>>

\* the ValueError of a policy is not caught in run_limits: main catches it
CatchValueError_InMain ==
    /\ UNCHANGED <<todo, phases_todo>>
    /\ exit_code' = 1
    /\ pc' = "exit"

\* the ValueError of a policy, caught at line 137: on to the next policy
CatchValueError ==
    /\ todo' = Tail(todo)
    /\ phases_todo' = <<>>
    /\ pc' = "for_lifecycle"
    /\ UNCHANGED exit_code

IndexPrivilegeCalls(lifecycle) ==
    IF lifecycles[lifecycle].indices = <<>> THEN <<>>
    ELSE <<Call("has_privileges(index)", lifecycle, NoStep, NoValue,
                has_index_privs[lifecycle])>>

CheckLifecycleLog(lifecycle) ==
    LogRecord("INFO", "check lifecycle", lifecycle, NoValue, NoValue, 0, 0, NoValue)

\* check_lifecycle, line 216: check_index_privileges raises
CheckLifecycleDenied ==
    /\ pc = "for_lifecycle"
    /\ todo # <<>>
    /\ lifecycles[Head(todo)].indices # <<>>
    /\ ~has_index_privs[Head(todo)]
    /\ calls' = calls \o IndexPrivilegeCalls(Head(todo))
    /\ log' = log \o <<CheckLifecycleLog(Head(todo)),
                       LogRecord("ERROR", "ValueError", Head(todo), NoValue, NoValue,
                                 0, 0, NoValue)>>
    /\ CatchValueError
    /\ UNCHANGED <<cluster_vars, stdout, es_indices, ilm_steps, invocations, run, dry_run,
                   lifecycles, phases_indexes, phase_next, walk, disk_usage_phase_sum>>

IndexPrivilegesPass(lifecycle) ==
    lifecycles[lifecycle].indices = <<>> \/ has_index_privs[lifecycle]

\* check_lifecycle, line 219: explain_lifecycle of an index that is gone
CheckLifecycleNotFound ==
    /\ pc = "for_lifecycle"
    /\ todo # <<>>
    /\ IndexPrivilegesPass(Head(todo))
    /\ Missing(Range(lifecycles[Head(todo)].indices)) # {}
    /\ Uncaught("NotFoundError",
                IndexPrivilegeCalls(Head(todo))
                \o IndexCalls("explain_lifecycle", lifecycles[Head(todo)].indices))
    /\ UNCHANGED <<cluster_vars, stdout, es_indices, ilm_steps, invocations, run, dry_run,
                   local_vars>>

\* check_lifecycle, lines 210-226
CheckLifecycle ==
    /\ pc = "for_lifecycle"
    /\ todo # <<>>
    /\ IndexPrivilegesPass(Head(todo))
    /\ Missing(Range(lifecycles[Head(todo)].indices)) = {}
    /\ calls' = calls \o IndexPrivilegeCalls(Head(todo))
                      \o IndexCalls("explain_lifecycle", lifecycles[Head(todo)].indices)
    /\ log' = Append(log, CheckLifecycleLog(Head(todo)))
    /\ phases_indexes' = get_indexes_in_phases(lifecycles[Head(todo)].indices)
    /\ phases_todo' = PhasesToCheck(lifecycles[Head(todo)])
    /\ pc' = "for_phase"
    /\ UNCHANGED <<cluster_vars, stdout, es_indices, ilm_steps, invocations, run, dry_run,
                   exit_code, lifecycles, todo, phase_next, walk, disk_usage_phase_sum>>

\* run_limits, line 141, and main's return 0
LogLifecycleStats ==
    /\ pc = "for_lifecycle"
    /\ todo = <<>>
    /\ log' = log \o StatsRecords(1, SelectNames(es_order, DOMAIN lifecycles))
    /\ exit_code' = 0
    /\ pc' = "exit"
    /\ UNCHANGED <<cluster_vars, stdout, es_indices, ilm_steps, invocations, run, dry_run,
                   local_vars, calls>>

----------------------------------------------------------------------------
(* Ilm_limiter.check_lifecycle: the loop over the phases *)

\* lifecycle_phase_indexes of the phase the loop is at
CurrentGroup == PhaseGroup(phases_indexes, Head(phases_todo))

\* the for loop of line 229 is over: check_lifecycle returns
LifecycleDone ==
    /\ pc = "for_phase"
    /\ phases_todo = <<>>
    /\ todo' = Tail(todo)
    /\ pc' = "for_lifecycle"
    /\ UNCHANGED <<cluster_vars, stdout, es_indices, ilm_steps, invocations, run, dry_run,
                   exit_code, lifecycles, phases_indexes, phases_todo, phase_next,
                   walk, disk_usage_phase_sum, calls, log>>

\* line 251
PhaseNotLimited ==
    /\ pc = "for_phase"
    /\ phases_todo # <<>>
    /\ Head(phases_todo) \notin DOMAIN lifecycles[Head(todo)].limits
    /\ log' = Append(log, LogRecord("INFO", "is not limited", Head(todo),
                                    Head(phases_todo), NoValue, 0, 0, NoValue))
    /\ phases_todo' = Tail(phases_todo)
    /\ UNCHANGED <<cluster_vars, stdout, es_indices, ilm_steps, invocations, run, dry_run, pc,
                   exit_code, lifecycles, todo, phases_indexes, phase_next, walk,
                   disk_usage_phase_sum, calls>>

\* line 236: get_next_lifecycle_phase raises; check_lifecycle does not catch it
PhaseNoSuccessor ==
    /\ pc = "for_phase"
    /\ phases_todo # <<>>
    /\ Head(phases_todo) \in DOMAIN lifecycles[Head(todo)].limits
    /\ get_next_lifecycle_phase(lifecycles[Head(todo)], Head(phases_todo)) = NoValue
    /\ log' = Append(log, LogRecord("ERROR", "ValueError", Head(todo),
                                    Head(phases_todo), NoValue, 0, 0, NoValue))
    /\ CatchValueError
    /\ UNCHANGED <<cluster_vars, stdout, es_indices, ilm_steps, invocations, run, dry_run,
                   lifecycles, phases_indexes, phase_next, walk, disk_usage_phase_sum,
                   calls>>

LimitedLog ==
    LogRecord("INFO", "is limited", Head(todo), Head(phases_todo), NoValue, 0,
              lifecycles[Head(todo)].limits[Head(phases_todo)],
              get_next_lifecycle_phase(lifecycles[Head(todo)], Head(phases_todo)))

PhaseIsEnforceable ==
    /\ pc = "for_phase"
    /\ phases_todo # <<>>
    /\ Head(phases_todo) \in DOMAIN lifecycles[Head(todo)].limits
    /\ get_next_lifecycle_phase(lifecycles[Head(todo)], Head(phases_todo)) # NoValue

\* the running total goes on from the phase checked before
disk_usage_phase_sum_start_Carried == disk_usage_phase_sum

\* line 269: disk_usage_phase_sum = 0
disk_usage_phase_sum_start == 0

\* lines 272-276: sorted() asks for the lifecycle date of an index that is gone
CheckLifecyclePhaseNotFound ==
    /\ PhaseIsEnforceable
    /\ Missing(Range(ItemNames(CurrentGroup))) # {}
    /\ Uncaught("NotFoundError", IndexCalls("explain_lifecycle", ItemNames(CurrentGroup)))
    /\ UNCHANGED <<cluster_vars, stdout, es_indices, ilm_steps, invocations, run, dry_run,
                   local_vars>>

\* lines 234-249 and 268-276: the call of check_lifecycle_phase, up to the sort
CheckLifecyclePhase ==
    /\ PhaseIsEnforceable
    /\ Missing(Range(ItemNames(CurrentGroup))) = {}
    /\ calls' = calls \o IndexCalls("explain_lifecycle", ItemNames(CurrentGroup))
    /\ log' = Append(log, LimitedLog)
    /\ phase_next' = get_next_lifecycle_phase(lifecycles[Head(todo)], Head(phases_todo))
    /\ walk' = SortedByDate(CurrentGroup, <<>>)
    /\ disk_usage_phase_sum' = disk_usage_phase_sum_start
    /\ pc' = "walk"
    /\ UNCHANGED <<cluster_vars, stdout, es_indices, ilm_steps, invocations, run, dry_run,
                   exit_code, lifecycles, todo, phases_indexes, phases_todo>>

----------------------------------------------------------------------------
(* Ilm_limiter.check_lifecycle_phase: the walk *)

disk_usage_phase_limit == lifecycles[Head(todo)].limits[Head(phases_todo)]

\* the loop of line 272 is over: check_lifecycle_phase returns
PhaseDone ==
    /\ pc = "walk"
    /\ walk = <<>>
    /\ phases_todo' = Tail(phases_todo)
    /\ pc' = "for_phase"
    /\ UNCHANGED <<cluster_vars, stdout, es_indices, ilm_steps, invocations, run, dry_run,
                   exit_code, lifecycles, todo, phases_indexes, phase_next, walk,
                   disk_usage_phase_sum, calls, log>>

\* line 277: cat.shards of an index that is gone
GetSizeNotFound ==
    /\ pc = "walk"
    /\ walk # <<>>
    /\ ~es_indices[Head(walk).index].exists
    /\ Uncaught("NotFoundError", IndexCalls("cat.shards", <<Head(walk).index>>))
    /\ UNCHANGED <<cluster_vars, stdout, es_indices, ilm_steps, invocations, run, dry_run,
                   local_vars>>

\* lines 277-289
GetSize ==
    /\ pc = "walk"
    /\ walk # <<>>
    /\ es_indices[Head(walk).index].exists
    /\ calls' = calls \o IndexCalls("cat.shards", <<Head(walk).index>>)
    /\ disk_usage_phase_sum' =
           disk_usage_phase_sum + get_index_total_dataset_size(Head(walk).index)
    /\ log' = Append(log, LogRecord("INFO", "usage", Head(todo), Head(phases_todo),
                                    Head(walk).index, disk_usage_phase_sum',
                                    disk_usage_phase_limit, NoValue))
    /\ pc' = "decide"
    /\ UNCHANGED <<cluster_vars, stdout, es_indices, ilm_steps, invocations, run, dry_run,
                   exit_code, lifecycles, todo, phases_indexes, phases_todo,
                   phase_next, walk>>

MovedLog(item) ==
    LogRecord("INFO", "is moved to phase", Head(todo), Head(phases_todo), item.index,
              disk_usage_phase_sum, disk_usage_phase_limit, phase_next)

\* current_step is built with the phase the index is to go to
MoveToStep_NextPhaseAsCurrent(item) ==
    /\ calls' = Append(calls, Call("move_to_step", item.index,
                                   [item.step EXCEPT !.phase = phase_next], phase_next,
                                   FALSE))
    /\ log' = log \o <<MovedLog(item),
                       LogRecord("ERROR", "index got moved or deleted",
                                 Head(todo), Head(phases_todo), item.index,
                                 0, 0, phase_next)>>
    /\ UNCHANGED es_indices

\* the step is asked for again just before the command is sent
current_step_Reread(item) == CurrentStep(item.index)

\* line 308: current_step=index_current_ilm_step, the step of the snapshot
current_step(item) == item.step

\* lines 306-311: the request, what the cluster does with it, and the except
MoveToStep(item) ==
    /\ calls' = Append(calls, Call("move_to_step", item.index, current_step(item),
                                   phase_next,
                                   MoveAccepted(item.index, current_step(item))))
    /\ IF MoveAccepted(item.index, current_step(item))
       THEN /\ es_indices' = [es_indices EXCEPT
                                 ![item.index].phase = phase_next,
                                 ![item.index].action = EntryStep(phase_next).action,
                                 ![item.index].name = EntryStep(phase_next).name]
            /\ log' = Append(log, MovedLog(item))
       ELSE /\ log' = log \o <<MovedLog(item),
                               LogRecord("ERROR", "index got moved or deleted",
                                         Head(todo), Head(phases_todo), item.index,
                                         0, 0, phase_next)>>
            /\ UNCHANGED es_indices

\* the dry-run flag is not looked at
IssuesCommands_Always == TRUE

\* line 306
IssuesCommands == ~dry_run

\* the loop ends at the first index over the limit
RestOfWalk_BreakAtCandidate ==
    IF ExceedsLimit(disk_usage_phase_sum, lifecycles[Head(todo)].limits[Head(phases_todo)])
    THEN <<>> ELSE Tail(walk)

\* the for loop of line 272 goes on with the next item
RestOfWalk == Tail(walk)

\* lines 292-318
Decide ==
    /\ pc = "decide"
    /\ IF ExceedsLimit(disk_usage_phase_sum, disk_usage_phase_limit)
       THEN IF IsSteadyStep(Head(walk).step)
            THEN IF IssuesCommands
                 THEN MoveToStep(Head(walk))
                 ELSE /\ log' = Append(log, MovedLog(Head(walk)))
                      /\ UNCHANGED <<calls, es_indices>>
            ELSE /\ log' = Append(log, LogRecord("ERROR", "non-steady step", Head(todo),
                                                 Head(phases_todo), Head(walk).index,
                                                 0, 0, NoValue))
                 /\ UNCHANGED <<calls, es_indices>>
       ELSE UNCHANGED <<calls, log, es_indices>>
    /\ walk' = RestOfWalk
    /\ pc' = "walk"
    /\ UNCHANGED <<cluster_vars, stdout, ilm_steps, invocations, run, dry_run, exit_code,
                   lifecycles, todo, phases_indexes, phases_todo, phase_next,
                   disk_usage_phase_sum>>

----------------------------------------------------------------------------
(* SIGTERM *)

\* SIGTERM keeps its default action
sigterm_disposition_Default == "SIG_DFL"

\* main, line 384: signal.signal(signal.SIGTERM, signal_handler)
sigterm_disposition == "signal_handler"

\* lines 378-379
signal_handler == stdout' = stdout \cup {"Received signal SIGTERM (15)"}

\* a SIGTERM is delivered to the running process, between two of its steps
Sigterm ==
    /\ pc \notin {"idle", "exit"}
    /\ IF sigterm_disposition = "signal_handler"
       THEN /\ signal_handler
            /\ UNCHANGED <<pc, exit_code>>
       ELSE /\ pc' = "exit"
            /\ exit_code' = -15
            /\ UNCHANGED stdout
    /\ UNCHANGED <<cluster_vars, es_indices, ilm_steps, invocations, run, dry_run,
                   local_vars, calls, log>>

----------------------------------------------------------------------------
(* The cluster's own lifecycle engine, and the time between two invocations *)

\* the engine acts between two requests of a running limiter; what it did
\* before the policies were fetched is part of the initial state
IlmRuns ==
    /\ ilm_races
    /\ ilm_steps < MaxIlmSteps
    /\ pc \notin {"idle", "exit", "run_limits", "get_lifecycles"}
    /\ ilm_steps' = ilm_steps + 1
    /\ UNCHANGED <<cluster_vars, stdout, invocations, run, pc, dry_run, exit_code,
                   local_vars, calls, log>>

\* the engine finishes the actions of the phase an index is in
IlmComplete(index) ==
    /\ IlmRuns
    /\ es_indices[index].exists
    /\ ~IsSteadyStep(CurrentStep(index))
    /\ es_indices' = [es_indices EXCEPT ![index].action = "complete",
                                        ![index].name = "complete"]

\* the engine moves an index to the next phase of its policy
IlmAdvance(index) ==
    /\ IlmRuns
    /\ es_indices[index].exists
    /\ IsSteadyStep(CurrentStep(index))
    /\ get_next_lifecycle_phase(es_lifecycles[es_indices[index].policy],
                                es_indices[index].phase) # NoValue
    /\ LET next == get_next_lifecycle_phase(es_lifecycles[es_indices[index].policy],
                                            es_indices[index].phase)
       IN es_indices' = [es_indices EXCEPT ![index].phase = next,
                                           ![index].action = EntryStep(next).action,
                                           ![index].name = EntryStep(next).name]

\* the engine deletes an index that is in the delete phase
IlmDelete(index) ==
    /\ IlmRuns
    /\ es_indices[index].exists
    /\ es_indices[index].phase = "delete"
    /\ es_indices' = [es_indices EXCEPT ![index].exists = FALSE]

\* an index that a transition has just put into a phase, once the engine has
\* carried the phase out
Settled(index) ==
    IF es_indices[index].exists /\ CurrentStep(index) = EntryStep(es_indices[index].phase)
    THEN IF es_indices[index].phase = "delete"
         THEN [es_indices[index] EXCEPT !.exists = FALSE]
         ELSE [es_indices[index] EXCEPT !.action = "complete", !.name = "complete"]
    ELSE es_indices[index]

\* between two invocations the requested transitions take effect
Settle ==
    /\ pc = "exit"
    /\ invocations # <<>>
    /\ es_indices' = [index \in IndexNames |-> Settled(index)]
    /\ pc' = "idle"
    /\ UNCHANGED <<cluster_vars, stdout, ilm_steps, invocations, run, dry_run, exit_code,
                   local_vars, calls, log>>

----------------------------------------------------------------------------
(* Initial states *)

NoIndex ==
    [exists |-> FALSE, policy |-> NoValue, phase |-> NoValue, action |-> NoValue,
     name |-> NoValue, date |-> 0, size |-> 0]

\* an index of `policy` in `phase`, at the phase's last step or in the middle of
\* one of its actions
Index(policy, phase, steady, date, kb) ==
    [exists |-> TRUE, policy |-> policy, phase |-> phase,
     action |-> IF steady THEN "complete" ELSE IF phase = "delete" THEN "delete"
                ELSE "forcemerge",
     name |-> IF steady THEN "complete" ELSE IF phase = "delete" THEN "delete"
              ELSE "forcemerge",
     date |-> date, size |-> kb * factor]

Policy(phases, has_meta, meta) ==
    [phases |-> phases, has_meta |-> has_meta, meta |-> meta]

Kb(n) == SizeString(10 * n, "kb")

HalfKb == SizeString(5, "kb")

InitProcess ==
    /\ run = 0
    /\ pc = "idle"
    /\ dry_run = FALSE
    /\ exit_code = -1
    /\ stdout = {}
    /\ lifecycles = <<>>
    /\ todo = <<>>
    /\ phases_indexes = <<>>
    /\ phases_todo = <<>>
    /\ phase_next = NoValue
    /\ walk = <<>>
    /\ disk_usage_phase_sum = 0
    /\ calls = <<>>
    /\ log = <<>>
    /\ ilm_steps = 0

\* one policy with a limit on hot and three indices in hot: every size, date
\* and limit; the index a may be in the middle of an action
InitWalk ==
    /\ \E n \in 1 .. MaxLimit :
          es_lifecycles = [p \in {"p1"} |->
              Policy({"hot", "warm"}, TRUE, [ph \in {"hot"} |-> Kb(n)])]
    /\ es_order = <<"p1">>
    /\ \E date \in [{"a", "b", "c"} -> 1 .. MaxDate],
          kb \in [{"a", "b", "c"} -> 0 .. MaxSize],
          steady \in BOOLEAN :
          es_indices = [i \in IndexNames |->
              IF i = "d" THEN NoIndex
              ELSE Index("p1", "hot", i # "a" \/ steady, date[i], kb[i])]
    /\ has_cluster_privs = TRUE
    /\ has_index_privs = [p \in {"p1"} |-> TRUE]
    /\ ilm_races = FALSE
    /\ invocations \in {<<TRUE>>, <<FALSE>>}

\* the policies p1 may be
PolicyShapes ==
    { Policy({"hot", "warm", "delete"}, TRUE,
             [ph \in {"hot", "warm"} |-> IF ph = "hot" THEN Kb(1) ELSE HalfKb]),
      Policy({"hot", "cold"}, TRUE, [ph \in {"hot", "cold"} |-> Kb(1)]),
      Policy({"hot", "delete"}, TRUE, [ph \in {"hot", "delete"} |-> Kb(1)]),
      Policy({"hot", "cold", "delete"}, TRUE, [ph \in {"hot", "warm"} |-> Kb(1)]),
      Policy({"hot", "warm"}, FALSE, <<>>),
      Policy({"hot", "warm"}, TRUE,
             [ph \in {"hot"} |-> [numeric |-> TRUE, tenths |-> 10, unit |-> "b"]]),
      Policy({"hot", "warm"}, TRUE, [ph \in {"hot"} |-> Kb(-1)]),
      Policy({"hot", "warm"}, TRUE, [ph \in {"hot"} |-> Kb(0)]) }

\* two policies, two indices each, run twice: every shape of p1, every placement
\* of its indices, every order and every set of privileges; the newer index of p1
\* may be in the middle of an action
InitPolicies ==
    /\ \E shape \in PolicyShapes :
          /\ es_lifecycles = [p \in {"p1", "p2"} |->
                IF p = "p1" THEN shape
                ELSE Policy({"hot", "warm"}, TRUE, [ph \in {"hot"} |-> Kb(1)])]
          /\ \E phase \in [{"a", "b"} -> shape.phases], steady \in BOOLEAN :
                es_indices = [i \in IndexNames |->
                    IF i \in {"a", "b"}
                    THEN Index("p1", phase[i], i = "b" \/ steady,
                               IF i = "a" THEN MaxDate ELSE 1, 1)
                    ELSE Index("p2", "hot", TRUE, IF i = "c" THEN MaxDate ELSE 1, 1)]
    /\ es_order \in {<<"p1", "p2">>, <<"p2", "p1">>}
    /\ has_cluster_privs \in BOOLEAN
    /\ has_index_privs \in [{"p1", "p2"} -> BOOLEAN]
    /\ ilm_races = FALSE
    /\ invocations \in {<<FALSE, FALSE>>, <<TRUE, FALSE>>}

\* one policy whose indices the lifecycle engine moves and deletes while the
\* limiter runs
InitRace ==
    /\ es_lifecycles = [p \in {"p1"} |->
          Policy({"hot", "delete"}, TRUE, [ph \in {"hot"} |-> Kb(1)])]
    /\ es_order = <<"p1">>
    /\ es_indices = [i \in IndexNames |->
          IF i = "d" THEN NoIndex
          ELSE IF i = "c" THEN Index("p1", "delete", FALSE, 1, 1)
          ELSE Index("p1", "hot", TRUE, IF i = "a" THEN MaxDate ELSE 1, 1)]
    /\ has_cluster_privs = TRUE
    /\ has_index_privs = [p \in {"p1"} |-> TRUE]
    /\ ilm_races = TRUE
    /\ invocations = <<FALSE>>

Init == InitProcess /\ (InitWalk \/ InitPolicies \/ InitRace)

Next ==
    \/ Main
    \/ CheckClusterPrivileges
    \/ GetLifecycles
    \/ CheckLifecycleDenied
    \/ CheckLifecycleNotFound
    \/ CheckLifecycle
    \/ LogLifecycleStats
    \/ LifecycleDone
    \/ PhaseNotLimited
    \/ PhaseNoSuccessor
    \/ CheckLifecyclePhaseNotFound
    \/ CheckLifecyclePhase
    \/ PhaseDone
    \/ GetSizeNotFound
    \/ GetSize
    \/ Decide
    \/ Settle
    \/ Sigterm
    \/ \E index \in IndexNames : IlmComplete(index)
    \/ \E index \in IndexNames : IlmAdvance(index)
    \/ \E index \in IndexNames : IlmDelete(index)

Spec == Init /\ [][Next]_vars

\* the steps of the limiter process
Pass ==
    \/ CheckClusterPrivileges
    \/ GetLifecycles
    \/ CheckLifecycleDenied
    \/ CheckLifecycleNotFound
    \/ CheckLifecycle
    \/ LogLifecycleStats
    \/ LifecycleDone
    \/ PhaseNotLimited
    \/ PhaseNoSuccessor
    \/ CheckLifecyclePhaseNotFound
    \/ CheckLifecyclePhase
    \/ PhaseDone
    \/ GetSizeNotFound
    \/ GetSize
    \/ Decide

\* the clusters with two policies and the cluster whose engine is active; a
\* started process keeps running: the interpreter executes its next step
LiveInit == InitProcess /\ (InitPolicies \/ InitRace)

LiveSpec == LiveInit /\ [][Next]_vars /\ WF_vars(Pass)

----------------------------------------------------------------------------
(* Reading the log and the requests *)

Usages == {k \in DOMAIN log : log[k].msg = "usage"}

Moves == {k \in DOMAIN calls : calls[k].api = "move_to_step"}

\* two records of the same walk: the same invocation, policy and phase
SameWalk(j, k) ==
    /\ log[j].run = log[k].run
    /\ log[j].lifecycle = log[k].lifecycle
    /\ log[j].phase = log[k].phase

\* the usage records of the walk of k, up to k
WalkUpTo(k) == {j \in Usages : j <= k /\ SameWalk(j, k)}

\* the decision on the index of usage record k has been taken
Decided(k) == ~(pc = "decide" /\ log[k].run = run /\ k = Len(log))

\* the index of usage record k was found over the limit: lines 296 and 314
Candidate(k) ==
    \E m \in DOMAIN log :
        /\ m > k
        /\ log[m].run = log[k].run
        /\ log[m].index = log[k].index
        /\ log[m].msg \in {"is moved to phase", "non-steady step"}

RECURSIVE SumOfSizes(_)
SumOfSizes(positions) ==
    IF positions = {} THEN 0
    ELSE LET k == CHOOSE k \in positions : TRUE
         IN es_indices[log[k].index].size + SumOfSizes(positions \ {k})

\* the byte budget the policy's metadata sets for the phase of record k
ConfiguredLimit(k) ==
    convert_size_to_bytes(es_lifecycles[log[k].lifecycle].meta[log[k].phase]).bytes

\* the index of usage record k was sent a transition command in that invocation
Commanded(k) ==
    \E c \in Moves : calls[c].run = log[k].run /\ calls[c].target = log[k].index

\* the index of usage record k was reported as moved
ReportedMoved(k) ==
    \E m \in DOMAIN log :
        /\ log[m].run = log[k].run
        /\ log[m].index = log[k].index
        /\ log[m].msg = "is moved to phase"

\* the items of the current policy's snapshot that the log has a usage record for
ObservedStep(k) ==
    LET item == CHOOSE item \in Range(phases_indexes) : item.index = log[k].index
    IN item.step

\* the last step of a phase: nothing of the phase is left to do
AtTerminalStep(step) == step = Step(step.phase, "complete", "complete")

OfCurrentPolicy(k) ==
    /\ pc \in {"for_phase", "walk", "decide"}
    /\ log[k].run = run
    /\ log[k].lifecycle = Head(todo)

----------------------------------------------------------------------------
(* C1: in a walk the indices come newest first, each record's running total *)
(* is the sum of the sizes of the indices walked so far, that one included, *)
(* and an index is a candidate exactly when this total is strictly greater  *)
(* than the phase's configured byte budget.                                 *)
C1_CandidateIffTotalExceedsLimit ==
    \A k \in Usages :
        /\ log[k].total = SumOfSizes(WalkUpTo(k))
        /\ log[k].limit = ConfiguredLimit(k)
        /\ \A j \in WalkUpTo(k) :
              es_indices[log[j].index].date >= es_indices[log[k].index].date
        /\ Decided(k) => (Candidate(k) <=> SumOfSizes(WalkUpTo(k)) > ConfiguredLimit(k))

\* a finished walk in which one index brought the total exactly to the limit and
\* was passed over, and an older one went over it
C1_Witness ==
    /\ pc = "walk"
    /\ walk = <<>>
    /\ \E j, k \in Usages :
          /\ j < k
          /\ SameWalk(j, k)
          /\ log[j].run = run
          /\ log[j].total = log[j].limit
          /\ log[j].total > 0
          /\ ~Candidate(j)
          /\ Candidate(k)

(* C2: the candidates of a walk are a suffix of it: after a candidate every *)
(* older index is a candidate too; and the walk goes over every index of    *)
(* the phase group, candidates or not.                                      *)
C2_CandidatesAreSuffixOfFullWalk ==
    /\ \A j, k \in Usages :
          (j < k /\ SameWalk(j, k) /\ Decided(k) /\ Candidate(j)) => Candidate(k)
    /\ pc \in {"walk", "decide"} =>
          {log[k].index : k \in {u \in Usages : log[u].run = run
                                                /\ log[u].lifecycle = Head(todo)
                                                /\ log[u].phase = Head(phases_todo)}}
          \cup Range(ItemNames(walk))
          = Range(ItemNames(CurrentGroup))

\* a finished walk of three indices: the newest is within the limit, both older
\* ones are candidates
C2_Witness ==
    /\ pc = "walk"
    /\ walk = <<>>
    /\ \E i, j, k \in Usages :
          /\ i < j /\ j < k
          /\ SameWalk(i, j) /\ SameWalk(j, k)
          /\ log[i].run = run
          /\ ~Candidate(i)
          /\ Candidate(j)
          /\ Candidate(k)

(* C3: a candidate whose observed step is not complete/complete is never    *)
(* sent a transition command, and the walk goes on after it: every          *)
(* candidate observed at complete/complete is reported as moved and, unless *)
(* the invocation is a dry run, sent its command.                           *)
C3_NonSteadyCandidateIsSkippedOnly ==
    /\ \A c \in Moves : AtTerminalStep(calls[c].step)
    /\ \A k \in Usages :
          (OfCurrentPolicy(k) /\ Decided(k) /\ log[k].total > log[k].limit) =>
              IF AtTerminalStep(ObservedStep(k))
              THEN ReportedMoved(k) /\ (dry_run \/ Commanded(k))
              ELSE ~ReportedMoved(k) /\ ~Commanded(k)

\* a finished walk in which a candidate in the middle of an action was passed
\* over and an older candidate was sent its command
C3_Witness ==
    /\ pc = "walk"
    /\ walk = <<>>
    /\ \E j, k \in Usages :
          /\ j < k
          /\ SameWalk(j, k)
          /\ OfCurrentPolicy(j)
          /\ log[j].total > log[j].limit
          /\ ~AtTerminalStep(ObservedStep(j))
          /\ ~Commanded(j)
          /\ AtTerminalStep(ObservedStep(k))
          /\ Commanded(k)

\* the invocation r ended in an exception that nothing caught
Traceback(r) == \E k \in DOMAIN log : log[k].run = r /\ log[k].level = "TRACEBACK"

\* the first invocation was no dry run
FirstRunEnforced == \E c \in DOMAIN calls : calls[c].run = 1 /\ ~calls[c].dry

\* the ValueErrors that ended the processing of a policy
PolicyErrors ==
    {k \in DOMAIN log : log[k].msg = "ValueError" /\ log[k].lifecycle # NoValue}

\* check_lifecycle was entered for the policy in invocation r
Checked(r, lifecycle) ==
    \E k \in DOMAIN log :
        /\ log[k].run = r
        /\ log[k].msg = "check lifecycle"
        /\ log[k].lifecycle = lifecycle

\* check_lifecycle_phase was called for the phase in invocation r
Enforced(r, lifecycle, phase) ==
    \E k \in DOMAIN log :
        /\ log[k].run = r
        /\ log[k].msg = "is limited"
        /\ log[k].lifecycle = lifecycle
        /\ log[k].phase = phase

\* index and target phase of every "is moved to phase" record of invocation r
ReportedMoves(r) ==
    {<<log[k].index, log[k].next>> :
        k \in {m \in DOMAIN log : log[m].run = r /\ log[m].msg = "is moved to phase"}}

\* index and target phase of every transition command of invocation r
CommandedMoves(r) ==
    {<<calls[c].target, calls[c].next>> : c \in {m \in Moves : calls[m].run = r}}

TerminalPhase == global_lifecycle_phases[Len(global_lifecycle_phases)]

----------------------------------------------------------------------------
\* the lifecycle engine has moved or deleted the index since the limiter
\* observed it in the snapshot of the current policy
Raced(item) ==
    /\ ilm_steps > 0
    /\ ~es_indices[item.index].exists \/ CurrentStep(item.index) # item.step
    /\ ~\E c \in Moves : calls[c].run = run /\ calls[c].target = item.index /\ calls[c].ok

(* C4: when the lifecycle engine has moved or deleted an index after the    *)
(* limiter observed it, the invocation still ends normally: no exception    *)
(* escapes and the exit code is 0.                                          *)
C4_EngineRaceIsBenign ==
    (pc = "exit" /\ \E item \in Range(phases_indexes) : Raced(item))
        => (exit_code = 0 /\ ~Traceback(run))

(* C5, as claimed: after a first invocation that enforced the limits, a     *)
(* second one on the settled cluster sends no transition command.           *)
C5_SecondRunSendsNoCommand ==
    \A c \in Moves : calls[c].run = 2 => ~FirstRunEnforced

(* C5, amended: after a first invocation that enforced the limits, a second *)
(* one on the settled cluster sends a transition command only for indices   *)
(* of a phase into which the first invocation moved an index of the same    *)
(* policy; a phase that received nothing is left alone.                     *)
C5_SecondRunOnlyCascades ==
    \A c \in Moves :
        (calls[c].run = 2 /\ FirstRunEnforced) =>
            \E f \in Moves :
                /\ calls[f].run = 1
                /\ calls[f].ok
                /\ calls[f].next = calls[c].step.phase
                /\ es_indices[calls[f].target].policy = es_indices[calls[c].target].policy

\* the second invocation has ended and did send a command, after a first one
\* that enforced the limits
C5_Witness ==
    /\ pc = "exit"
    /\ run = 2
    /\ FirstRunEnforced
    /\ \E c \in Moves : calls[c].run = 2 /\ calls[c].ok

(* C6: when a limited phase of a policy has no later phase in the policy,   *)
(* every other limited phase of the policy that has one is still checked in *)
(* the same pass.                                                           *)
C6_OtherLimitedPhasesStillChecked ==
    (pc = "exit" /\ exit_code = 0) =>
        \A lifecycle \in DOMAIN lifecycles :
            IndexPrivilegesPass(lifecycle) =>
                \A phase \in DOMAIN lifecycles[lifecycle].limits \cap KnownPhases :
                    get_next_lifecycle_phase(lifecycles[lifecycle], phase) # NoValue
                        => Enforced(run, lifecycle, phase)

(* C7: a policy whose processing fails with a ValueError (missing index     *)
(* privileges, no successor phase) gets no transition command in that       *)
(* invocation, and the invocation goes on: with no engine activity in      *)
(* between, it ends with exit code 0 and check_lifecycle has been entered   *)
(* for every kept policy.                                                   *)
C7_PolicyFailureIsIsolated ==
    /\ \A k \in PolicyErrors : \A c \in Moves :
          calls[c].run = log[k].run
              => es_indices[calls[c].target].policy # log[k].lifecycle
    /\ (pc = "exit" /\ has_cluster_privs /\ ilm_steps = 0) =>
          /\ exit_code = 0
          /\ \A lifecycle \in DOMAIN es_lifecycles :
                is_lifecycle_limited(es_lifecycles[lifecycle]) => Checked(run, lifecycle)

\* an invocation has ended with 0 in which the first policy failed and an index
\* of the second one was sent a command
C7_Witness ==
    /\ pc = "exit"
    /\ exit_code = 0
    /\ Len(es_order) = 2
    /\ \E k \in PolicyErrors : log[k].run = run /\ log[k].lifecycle = es_order[1]
    /\ \E c \in Moves :
          calls[c].run = run /\ es_indices[calls[c].target].policy = es_order[2]

(* C8: without the cluster privileges an invocation asks the cluster        *)
(* nothing but the privilege check, fetches no policy, logs nothing but the *)
(* error, and exits with 1.                                                 *)
C8_MissingClusterPrivilegesIsFatal ==
    ~has_cluster_privs =>
        /\ \A c \in DOMAIN calls : calls[c].api = "has_privileges(cluster)"
        /\ \A k \in DOMAIN log : log[k].msg = "ValueError" /\ log[k].lifecycle = NoValue
        /\ lifecycles = <<>>
        /\ pc \in {"idle", "run_limits", "exit"}
        /\ pc = "exit" => exit_code = 1

\* the second of two invocations without cluster privileges has ended
C8_Witness ==
    /\ ~has_cluster_privs
    /\ pc = "exit"
    /\ run = 2
    /\ exit_code = 1
    /\ Len(calls) = 2

(* C9: no index observed in the terminal phase (delete) is walked or sent a *)
(* transition command, and the terminal phase is never checked, whatever    *)
(* limit the metadata sets for it.                                          *)
C9_TerminalPhaseIsNeverEnforced ==
    /\ \A c \in Moves : calls[c].step.phase # TerminalPhase
    /\ \A k \in DOMAIN log :
          log[k].msg \in {"is limited", "usage", "is moved to phase", "non-steady step"}
              => log[k].phase # TerminalPhase
    /\ \A k \in Usages : OfCurrentPolicy(k) => ObservedStep(k).phase # TerminalPhase

\* an enforcing invocation has ended normally on a policy that sets a limit for
\* delete, was checked, and has more in delete than the limit allows
C9_Witness ==
    /\ pc = "exit"
    /\ exit_code = 0
    /\ ~dry_run
    /\ \E lifecycle \in DOMAIN lifecycles :
          /\ TerminalPhase \in DOMAIN lifecycles[lifecycle].limits
          /\ Enforced(run, lifecycle, "hot")
          /\ \E i, j \in IndexNames :
                /\ i # j
                /\ \A x \in {i, j} :
                      /\ es_indices[x].exists
                      /\ es_indices[x].policy = lifecycle
                      /\ CurrentStep(x) = CompleteStep(TerminalPhase)
                /\ es_indices[i].size + es_indices[j].size
                       > lifecycles[lifecycle].limits[TerminalPhase]

(* C10: a dry run sends no transition command; an enforcing invocation      *)
(* sends a command for exactly the moves it reports; and the moves a dry    *)
(* run reports are exactly the commands that an enforcing invocation sends  *)
(* on the same cluster state.                                               *)
C10_DryRunDecidesAlikeAndSendsNothing ==
    /\ \A c \in Moves : ~calls[c].dry
    /\ \A r \in 1 .. run :
          (\E c \in DOMAIN calls : calls[c].run = r /\ ~calls[c].dry)
              => ReportedMoves(r) = CommandedMoves(r)
    /\ (pc = "exit" /\ run = 2 /\ ~dry_run /\ ~FirstRunEnforced) =>
          ReportedMoves(1) = CommandedMoves(2)

\* an enforcing invocation that followed a dry run has ended and sent a command
C10_Witness ==
    /\ pc = "exit"
    /\ run = 2
    /\ ~dry_run
    /\ ~FirstRunEnforced
    /\ ReportedMoves(1) # {}
    /\ CommandedMoves(2) = ReportedMoves(1)

----------------------------------------------------------------------------
\* the phases the policy of an index defines
PhasesOfIndex(index) == es_lifecycles[es_indices[index].policy].phases

Later(p, q) == PhaseIndex(q) > PhaseIndex(p)

(* C11: the target phase of every transition command is a phase the policy  *)
(* defines, is later in the phase order than the phase the index was        *)
(* observed in, and no phase the policy defines lies between the two.       *)
C11_TargetIsNearestDefinedLaterPhase ==
    \A c \in Moves :
        /\ calls[c].next \in PhasesOfIndex(calls[c].target)
        /\ Later(calls[c].step.phase, calls[c].next)
        /\ ~\E q \in PhasesOfIndex(calls[c].target) :
              Later(calls[c].step.phase, q) /\ Later(q, calls[c].next)

\* a command was accepted whose target skips a phase the policy does not define
\* although a later phase than the target is defined
C11_Witness ==
    \E c \in Moves :
        /\ calls[c].ok
        /\ PhaseIndex(calls[c].next) > PhaseIndex(calls[c].step.phase) + 1
        /\ \E q \in PhasesOfIndex(calls[c].target) : Later(calls[c].next, q)

----------------------------------------------------------------------------
\* the summary records of invocation r
Summary(r) == {k \in DOMAIN log : log[k].run = r /\ log[k].msg = "sum of limits"}

\* the kept policies whose metadata sets a budget for a phase they define
Budgeted(phase) ==
    {p \in DOMAIN es_lifecycles :
        /\ is_lifecycle_limited(es_lifecycles[p])
        /\ phase \in DOMAIN es_lifecycles[p].meta
        /\ phase \in es_lifecycles[p].phases}

RECURSIVE SumOfBudgets(_, _)
SumOfBudgets(policies, phase) ==
    IF policies = {} THEN 0
    ELSE LET p == CHOOSE p \in policies : TRUE
         IN convert_size_to_bytes(es_lifecycles[p].meta[phase]).bytes
            + SumOfBudgets(policies \ {p}, phase)

\* invocation r reported, in phase order, one sum for every phase that has a
\* budget in some kept policy, and nothing for the other phases
SummaryIsComplete(r) ==
    /\ \A phase \in Range(global_lifecycle_phases) :
          IF Budgeted(phase) = {}
          THEN ~\E k \in Summary(r) : log[k].phase = phase
          ELSE \E k \in Summary(r) :
                  /\ log[k].phase = phase
                  /\ log[k].limit = SumOfBudgets(Budgeted(phase), phase)
                  /\ \A m \in Summary(r) : log[m].phase = phase => m = k
    /\ \A k, m \in Summary(r) : k < m => Later(log[k].phase, log[m].phase)
    /\ \A k \in Summary(r) : \A m \in DOMAIN log : (log[m].run = r /\ m > k) => m \in Summary(r)

(* C12: every invocation that has passed the cluster privilege check and    *)
(* has ended has reported, after everything else, the sum of the budgets of *)
(* each phase over the kept policies, in phase order.                       *)
C12_SummaryOnEveryPrivilegedRun ==
    (pc = "exit" /\ has_cluster_privs) => SummaryIsComplete(run)

(* C12, for the invocations that end with exit code 0 (some policies may    *)
(* have failed with a ValueError): the summary is complete.                 *)
C12_SummaryWhenRunCompletes ==
    (pc = "exit" /\ exit_code = 0) => SummaryIsComplete(run)

\* an invocation in which a policy failed has ended with a summary that adds the
\* budgets of two policies for one phase and reports a second phase
C12_SummaryWitness ==
    /\ pc = "exit"
    /\ exit_code = 0
    /\ \E k \in PolicyErrors : log[k].run = run
    /\ \E k, m \in Summary(run) :
          /\ k # m
          /\ Cardinality(Budgeted(log[k].phase)) = 2
          /\ log[k].limit = 2048

----------------------------------------------------------------------------
\* the metadata has a limiter section and each of its size strings is a number
\* followed by one of the four units
HasLimiterSection(policy) ==
    /\ es_lifecycles[policy].has_meta
    /\ \A phase \in DOMAIN es_lifecycles[policy].meta :
          /\ es_lifecycles[policy].meta[phase].numeric
          /\ es_lifecycles[policy].meta[phase].unit \in {"kb", "mb", "gb", "tb"}

\* the indices that use the policy
GovernedBy(policy) == {i \in IndexNames : es_indices[i].policy = policy}

(* C13: a policy without a valid limiter section is never among the kept    *)
(* policies, nothing is logged about it, and no request of any invocation   *)
(* concerns the policy or one of its indices.                               *)
C13_UnlimitedPolicyIsLeftAlone ==
    \A policy \in DOMAIN es_lifecycles :
        ~HasLimiterSection(policy) =>
            /\ policy \notin DOMAIN lifecycles
            /\ policy \notin Range(todo)
            /\ \A k \in DOMAIN log : log[k].lifecycle # policy
            /\ \A c \in DOMAIN calls :
                  calls[c].target \notin GovernedBy(policy) \cup {policy}

\* an invocation has ended normally and sent a command for the other policy,
\* while a policy without valid limiter section has two indices of 1 KiB in hot
C13_Witness ==
    /\ pc = "exit"
    /\ exit_code = 0
    /\ \E c \in Moves : calls[c].run = run /\ calls[c].ok
    /\ \E policy \in DOMAIN es_lifecycles :
          /\ ~HasLimiterSection(policy)
          /\ es_lifecycles[policy].has_meta
          /\ \E i, j \in GovernedBy(policy) :
                /\ i # j
                /\ CurrentStep(i) = CompleteStep("hot")
                /\ CurrentStep(j) = CompleteStep("hot")

----------------------------------------------------------------------------
\* the phases the metadata of a policy limits without the policy defining them
Undefined(policy) ==
    IF es_lifecycles[policy].has_meta
    THEN DOMAIN es_lifecycles[policy].meta \ es_lifecycles[policy].phases
    ELSE {}

\* invocation r warned about the limit of the policy on the phase
Warned(r, policy, phase) ==
    \E k \in DOMAIN log :
        /\ log[k].run = r
        /\ log[k].level = "WARNING"
        /\ log[k].lifecycle = policy
        /\ log[k].phase = phase

\* check_lifecycle of the policy raised no ValueError in invocation r
Unfailed(r, policy) ==
    ~\E k \in PolicyErrors : log[k].run = r /\ log[k].lifecycle = policy

(* C14: a limit on a phase the policy does not define is warned about and   *)
(* dropped: the phase is neither added to the policy nor given a budget, no *)
(* record or command other than the warning concerns it, the invocation     *)
(* ends with exit code 0, and the limits of the policy on phases it does    *)
(* define are enforced unless the policy's check fails.                     *)
C14_LimitOnUndefinedPhaseIsDropped ==
    \A policy \in DOMAIN lifecycles : \A phase \in Undefined(policy) :
        /\ Warned(run, policy, phase)
        /\ phase \notin lifecycles[policy].phases
        /\ phase \notin DOMAIN lifecycles[policy].limits
        /\ \A k \in DOMAIN log :
              (log[k].lifecycle = policy /\ log[k].phase = phase)
                  => log[k].level = "WARNING"
        /\ \A k \in Summary(run) : Budgeted(log[k].phase) # {}
        /\ \A c \in Moves :
              calls[c].target \in GovernedBy(policy)
                  => calls[c].step.phase # phase /\ calls[c].next # phase
        /\ pc = "exit" =>
              /\ exit_code = 0
              /\ Unfailed(run, policy) =>
                    \A q \in (DOMAIN es_lifecycles[policy].meta
                                 \cap es_lifecycles[policy].phases) \cap KnownPhases :
                        Enforced(run, policy, q)

\* an invocation has ended in which a policy with a limit on a phase it does not
\* define had an index moved out of a limited phase it does define, past the
\* undefined one
C14_Witness ==
    /\ pc = "exit"
    /\ \E policy \in DOMAIN lifecycles : \E phase \in Undefined(policy) :
          /\ Warned(run, policy, phase)
          /\ \E c \in Moves :
                /\ calls[c].run = run
                /\ calls[c].ok
                /\ calls[c].target \in GovernedBy(policy)
                /\ Later(calls[c].step.phase, phase)
                /\ Later(phase, calls[c].next)

----------------------------------------------------------------------------
(* C15: every byte budget of a kept policy is a non-negative integer.       *)
C15_BudgetsAreNonNegative ==
    \A policy \in DOMAIN lifecycles : \A phase \in DOMAIN lifecycles[policy].limits :
        lifecycles[policy].limits[phase] \in Nat

----------------------------------------------------------------------------
\* the handler has printed its line in this step
HandlerRan == stdout' # stdout /\ stdout' # {}

(* C16: a SIGTERM delivered to the running process changes nothing but what *)
(* the handler prints: the pass is where it was, with the same requests     *)
(* sent and the same records logged; the process never ends with another    *)
(* status than 0 or 1; and every started pass runs to its end.              *)
C16_SigtermDoesNotStopThePass ==
    /\ [][HandlerRan =>
            /\ pc' = pc
            /\ exit_code' = exit_code
            /\ calls' = calls
            /\ log' = log
            /\ es_indices' = es_indices
            /\ local_vars' = local_vars]_vars
    /\ [](exit_code \in {-1, 0, 1})
    /\ (pc = "run_limits") ~> (pc = "exit")

\* a pass that received a SIGTERM has ended normally and had a command accepted
C16_Witness ==
    /\ pc = "exit"
    /\ exit_code = 0
    /\ stdout # {}
    /\ \E c \in Moves : calls[c].run = run /\ calls[c].ok

----------------------------------------------------------------------------
\* the size queries and transition commands that the invocation under way has
\* sent for indices of the policy it is checking
PassCalls ==
    {c \in DOMAIN calls :
        /\ pc \in {"for_phase", "walk", "decide"}
        /\ calls[c].run = run
        /\ calls[c].api \in {"cat.shards", "move_to_step"}
        /\ calls[c].target \in Range(ItemNames(phases_indexes))}

\* the phase the limiter observed the target of a request in
ObservedPhase(c) ==
    LET item == CHOOSE item \in Range(phases_indexes) : item.index = calls[c].target
    IN item.step.phase

(* C17: within the pass over one policy every size query and transition     *)
(* command for an index observed in a later phase is sent before every size *)
(* query and transition command for an index observed in an earlier phase.  *)
C17_PhasesAreCheckedLatestFirst ==
    \A c, d \in PassCalls :
        Later(ObservedPhase(d), ObservedPhase(c)) => c < d

\* a transition command for an index of a later phase was accepted and then the
\* size of an index of an earlier phase of the same policy was asked for
C17_Witness ==
    \E c, d \in PassCalls :
        /\ calls[c].api = "move_to_step"
        /\ calls[c].ok
        /\ calls[d].api = "cat.shards"
        /\ Later(ObservedPhase(d), ObservedPhase(c))
        /\ c < d

----------------------------------------------------------------------------
\* the item of the current policy's snapshot for an index
ObservedItem(index) == CHOOSE item \in Range(phases_indexes) : item.index = index

\* this step sends a transition command
SendsCommand ==
    /\ Len(calls') = Len(calls) + 1
    /\ calls'[Len(calls')].api = "move_to_step"

(* C18: every transition command names as current step the step of the     *)
(* index in the snapshot taken when the indices were grouped; the command   *)
(* is accepted exactly when the index is still there and at that step, and  *)
(* moves that index to the target phase and no other; a rejected command    *)
(* changes no index.                                                        *)
C18_CommandCarriesObservedStep ==
    [][SendsCommand =>
          LET c == calls'[Len(calls')]
          IN /\ c.step = ObservedItem(c.target).step
             /\ c.ok <=> /\ es_indices[c.target].exists
                         /\ CurrentStep(c.target) = ObservedItem(c.target).step
             /\ \A i \in IndexNames \ {c.target} : es_indices'[i] = es_indices[i]
             /\ IF c.ok
                THEN /\ es_indices'[c.target].phase = c.next
                     /\ es_indices'[c.target].exists
                ELSE es_indices'[c.target] = es_indices[c.target]]_vars

\* the invocation has ended normally after a command was rejected because the
\* engine had moved the index on since the snapshot, and the index is where the
\* engine put it
C18_Witness ==
    /\ pc = "exit"
    /\ exit_code = 0
    /\ ilm_steps > 0
    /\ \E c \in Moves :
          /\ ~calls[c].ok
          /\ es_indices[calls[c].target].exists
          /\ CurrentStep(calls[c].target) # calls[c].step
          /\ CurrentStep(calls[c].target) = EntryStep(calls[c].next)

----------------------------------------------------------------------------
\* the budget the metadata of the policy of an index sets for a phase
BudgetOf(index, phase) ==
    convert_size_to_bytes(es_lifecycles[es_indices[index].policy].meta[phase]).bytes

\* the indices of the same policy that are in the phase right now
Residents(index, phase) ==
    {i \in IndexNames :
        /\ es_indices[i].exists
        /\ es_indices[i].policy = es_indices[index].policy
        /\ es_indices[i].phase = phase}

RECURSIVE TotalSize(_)
TotalSize(indexes) ==
    IF indexes = {} THEN 0
    ELSE LET i == CHOOSE i \in indexes : TRUE
         IN es_indices[i].size + TotalSize(indexes \ {i})

(* C19, as claimed: a transition command is accepted only when the indices  *)
(* that are in the phase at that moment add up to more than the budget.     *)
C19_MovedOnlyWhenResidentsExceedBudget ==
    [][(SendsCommand /\ calls'[Len(calls')].ok) =>
          LET c == calls'[Len(calls')]
          IN TotalSize(Residents(c.target, c.step.phase))
                 > BudgetOf(c.target, c.step.phase)]_vars

(* C19, amended: a transition command is accepted only for an index that is *)
(* still at its observed step and whose running total exceeds the budget,   *)
(* where the running total adds the sizes of the index and of the newer     *)
(* indices that the snapshot has in its phase, whether or not these are     *)
(* still in the phase.                                                      *)
C19_MovedOnlyWhenSnapshotTotalExceedsBudget ==
    \A c \in PassCalls :
        (calls[c].api = "move_to_step" /\ calls[c].ok) =>
            \E k \in Usages :
                /\ log[k].run = run
                /\ log[k].index = calls[c].target
                /\ log[k].phase = calls[c].step.phase
                /\ calls[c].step = ObservedItem(calls[c].target).step
                /\ \A j \in WalkUpTo(k) :
                      ObservedItem(log[j].index).step.phase = log[k].phase
                /\ SumOfSizes(WalkUpTo(k)) > BudgetOf(calls[c].target, log[k].phase)

\* a command was accepted for the older of two indices after the engine had moved
\* the newer one, which the running total counts, out of the phase: what is
\* left in the phase is within the budget
C19_Witness ==
    /\ pc = "walk"
    /\ \E c \in PassCalls : \E j \in Usages :
          /\ calls[c].api = "move_to_step"
          /\ calls[c].ok
          /\ log[j].run = run
          /\ log[j].phase = calls[c].step.phase
          /\ log[j].index # calls[c].target
          /\ es_indices[log[j].index].phase # log[j].phase
          /\ ~\E m \in Moves : calls[m].target = log[j].index
          /\ TotalSize(Residents(calls[c].target, calls[c].step.phase)
                           \cup {calls[c].target})
                 <= BudgetOf(calls[c].target, calls[c].step.phase)

----------------------------------------------------------------------------
\* the transition commands invocation r sent for an index
CommandsFor(r, index) ==
    {c \in Moves : calls[c].run = r /\ calls[c].target = index}

\* the usage records of invocation r for an index: its evaluations
EvaluationsOf(r, index) ==
    {k \in Usages : log[k].run = r /\ log[k].index = index}

(* C20: in one invocation an index is evaluated at most once and sent at    *)
(* most one transition command, also when it was moved into a later phase   *)
(* that has a limit of its own.                                             *)
C20_AtMostOneCommandPerIndex ==
    \A r \in 1 .. run : \A index \in IndexNames :
        /\ Cardinality(CommandsFor(r, index)) <= 1
        /\ Cardinality(EvaluationsOf(r, index)) <= 1

\* an invocation has ended normally in which an index was moved into a phase
\* whose own budget the index alone exceeds
C20_Witness ==
    /\ pc = "exit"
    /\ exit_code = 0
    /\ \E c \in Moves :
          /\ calls[c].run = run
          /\ calls[c].ok
          /\ calls[c].next \in DOMAIN es_lifecycles[es_indices[calls[c].target].policy].meta
          /\ calls[c].next \in KnownPhases
          /\ es_indices[calls[c].target].size > BudgetOf(calls[c].target, calls[c].next)
          /\ Cardinality(EvaluationsOf(run, calls[c].target)) = 1

====
